---- MODULE Spec2Model ----
(***************************************************************************)
(* Model of backend/simulation_runner.py: the SimulationRunner object, its *)
(* generator run() (the step-and-render loop that yields frame records to  *)
(* a consumer), and the control calls set_paused() and stop() that another *)
(* thread makes while the generator is running or suspended.               *)
(*                                                                         *)
(* Lengths are integers (the configuration's length unit); the inputs are  *)
(* chosen so that every distance and every displacement the code computes  *)
(* is an integer, which ExactArithmetic states.  An angle is represented   *)
(* by the primitive lattice vector of its direction, which is one-to-one   *)
(* with arctan2 on the lattice.                                            *)
(***************************************************************************)
EXTENDS Integers, Sequences, FiniteSets, TLC

\* ---------------------------------------------------------------- bounds
MaxRobots == 2
MaxSteps == 4
MaxRuns == 2

\* ------------------------------------------------------ program constants
\* speed = min(max_speed * 0.1, distance): the literal 0.1 as 1 / SpeedDen
SpeedNum == 1
SpeedDen == 10

\* ------------------------------------------------------------ input sets
\* start_position of every robot (x, y); theta is 0.0
StartPoint == [x |-> 0, y |-> 0]
\* goal points a configuration may name
GoalA == [x |-> 3, y |-> 4]
GoalB == [x |-> 6, y |-> 0]
\* ordered goal lists a robot may be configured with
GoalLists == {<<>>, <<GoalA>>, <<GoalB>>, <<GoalB, GoalA>>}
\* max_speed values a configuration may name
Speeds == {50}
\* goal_threshold values a configuration may name
Thresholds == {1, 6}
\* simulation.time_step as config_manager writes it, 0.1, as <<num, den>>
DefaultTimeStep == <<1, 10>>

\* Scenario A of the design, with every length in tenths of its unit (the
\* motion is homogeneous in the lengths): a robot at (0, 0) with the single
\* goal (10, 0), goal_threshold 1, max_speed 5, time_step 1
ScenarioAGoal == [x |-> 100, y |-> 0]
ScenarioAThreshold == 10
ScenarioASpeed == 50
ScenarioATimeStep == <<1, 1>>

VARIABLES
    robot_states,    \* self.robot_states: sequence of robot state records
    max_steps,       \* self.config['simulation']['max_steps']
    goal_threshold,  \* self.config['simulation']['goal_threshold']
    time_step,       \* self.config['simulation']['time_step'], never read
    paused,          \* self.paused
    stopped,         \* self.stopped
    pc,              \* position of the generator returned by run()
    step,            \* local `step` of run()
    all_completed,   \* local `all_completed` of run()
    i,               \* index of the robot the for loop of run() is at
    waiting,         \* the pull in progress, or the last, slept in the pause branch
    records,         \* statuses of the records the current stream yielded
    iters,           \* loop bodies the current stream has entered
    finish_step,     \* step of the iteration in which the last robot finished
    runs,            \* number of times run() was called and pulled
    prev_end,        \* how the stream before the current one ended
    stop_when,       \* where the generator was when stop() was first called
    stop_in_body,    \* stop() first came inside a loop body of this stream
    frames_at_stop,  \* frames this stream had yielded when stop() first came
    pause_when       \* where the generator was when the held pause was set

vars == <<robot_states, max_steps, goal_threshold, time_step, paused, stopped,
          pc, step, all_completed, i, waiting, records, iters, finish_step,
          runs, prev_end, stop_when, stop_in_body, frames_at_stop,
          pause_when>>

NoStep == 0 - 1

\* ------------------------------------------------------------- arithmetic
Abs(n) == IF n < 0 THEN 0 - n ELSE n

Min(a, b) == IF a < b THEN a ELSE b

Sign(n) == IF n < 0 THEN 0 - 1 ELSE IF n > 0 THEN 1 ELSE 0

RECURSIVE GCD(_, _)
GCD(a, b) == IF b = 0 THEN a ELSE GCD(b, a % b)

\* np.sqrt on the integers: the integer part of the root
sqrt(n) == CHOOSE r \in 0..n : r * r <= n /\ (r + 1) * (r + 1) > n

\* np.arctan2(dy, dx): the angle, as the primitive vector of its direction
arctan2(dy, dx) ==
    IF dx = 0 /\ dy = 0 THEN <<1, 0>>
    ELSE LET g == GCD(Abs(dx), Abs(dy)) IN <<dx \div g, dy \div g>>

\* (d / distance) * speed, rounded toward zero
Displacement(d, distance, speed) == Sign(d) * ((Abs(d) * speed) \div distance)

\* ---------------------------------------------------------- construction
\* __init__: one state record per configured robot
InitialState(goals, max_speed) ==
    [x |-> StartPoint.x, y |-> StartPoint.y, theta |-> <<1, 0>>,
     goal_index |-> 0, goals |-> goals, max_speed |-> max_speed]

RobotConfigs == {InitialState(g, s) : g \in GoalLists, s \in Speeds}

\* ------------------------------------------------------------ the motion
\* mutants of the motion: an arrival skips a goal; the return after an arrival
\* is missing, so the robot also moves; the speed is not clamped to the
\* remaining distance
update_robot_position_skip(r, threshold) ==
    IF r.goal_index >= Len(r.goals) THEN r
    ELSE
        LET current_goal == r.goals[r.goal_index + 1]
            dx == current_goal.x - r.x
            dy == current_goal.y - r.y
            distance == sqrt(dx * dx + dy * dy)
        IN  IF distance < threshold
            THEN [r EXCEPT !.goal_index = @ + 2]
            ELSE
                LET speed ==
                        Min((r.max_speed * SpeedNum) \div SpeedDen, distance)
                IN  [r EXCEPT !.x = @ + Displacement(dx, distance, speed),
                              !.y = @ + Displacement(dy, distance, speed),
                              !.theta = arctan2(dy, dx)]

update_robot_position_fall_through(r, threshold) ==
    IF r.goal_index >= Len(r.goals) THEN r
    ELSE
        LET current_goal == r.goals[r.goal_index + 1]
            dx == current_goal.x - r.x
            dy == current_goal.y - r.y
            distance == sqrt(dx * dx + dy * dy)
            speed == Min((r.max_speed * SpeedNum) \div SpeedDen, distance)
            arrived == IF distance < threshold
                       THEN [r EXCEPT !.goal_index = @ + 1]
                       ELSE r
        IN  IF distance = 0 THEN arrived
            ELSE [arrived EXCEPT
                      !.x = @ + Displacement(dx, distance, speed),
                      !.y = @ + Displacement(dy, distance, speed),
                      !.theta = arctan2(dy, dx)]

update_robot_position_no_clamp(r, threshold) ==
    IF r.goal_index >= Len(r.goals) THEN r
    ELSE
        LET current_goal == r.goals[r.goal_index + 1]
            dx == current_goal.x - r.x
            dy == current_goal.y - r.y
            distance == sqrt(dx * dx + dy * dy)
        IN  IF distance < threshold
            THEN [r EXCEPT !.goal_index = @ + 1]
            ELSE
                LET speed == (r.max_speed * SpeedNum) \div SpeedDen
                IN  [r EXCEPT !.x = @ + Displacement(dx, distance, speed),
                              !.y = @ + Displacement(dy, distance, speed),
                              !.theta = arctan2(dy, dx)]

\* _update_robot_position(robot_state, goal_threshold)
update_robot_position(r, threshold) ==
    IF r.goal_index >= Len(r.goals) THEN r
    ELSE
        LET current_goal == r.goals[r.goal_index + 1]
            dx == current_goal.x - r.x
            dy == current_goal.y - r.y
            distance == sqrt(dx * dx + dy * dy)
        IN  IF distance < threshold
            THEN [r EXCEPT !.goal_index = @ + 1]
            ELSE
                LET speed ==
                        Min((r.max_speed * SpeedNum) \div SpeedDen, distance)
                IN  [r EXCEPT !.x = @ + Displacement(dx, distance, speed),
                              !.y = @ + Displacement(dy, distance, speed),
                              !.theta = arctan2(dy, dx)]

\* ------------------------------------------------------- the loop of run()
\* mutants of the loop test: the stop flag is not read; the budget is off by
\* one; the budget is not read
LoopCondNoStop(s, m, st) == s < m
LoopCondOffByOne(s, m, st) == s <= m /\ ~st
LoopCondNoBudget(s, m, st) == ~st

\* while step < max_steps and not self.stopped
LoopCond(s, m, st) == s < m /\ ~st

\* mutant of the test after the loop: the last record is yielded always
BudgetUsedAlways(s, m) == TRUE

\* if step >= max_steps, after the loop
BudgetUsed(s, m) == s >= m

Finished(r) == r.goal_index >= Len(r.goals)

AllFinished == \A k \in 1..Len(robot_states) : Finished(robot_states[k])

Count(status, seq) == Cardinality({k \in 1..Len(seq) : seq[k] = status})

\* where the generator is, as seen by a control call
Suspended == pc \in {"yielded_frame", "yielded_completed", "yielded_final"}
Ended == pc \in {"done", "raised"}
Where ==
    IF pc = "idle" THEN "unstarted"
    ELSE IF Ended THEN "ended"
    ELSE IF Suspended THEN "between"
    ELSE "midstep"

\* ------------------------------------------------------------------ Init
Init ==
    /\ \/ /\ robot_states \in
                 UNION {[1..n -> RobotConfigs] : n \in 0..MaxRobots}
          /\ goal_threshold \in Thresholds
          /\ time_step = DefaultTimeStep
       \/ /\ robot_states = <<InitialState(<<ScenarioAGoal>>, ScenarioASpeed)>>
          /\ goal_threshold = ScenarioAThreshold
          /\ time_step = ScenarioATimeStep
    /\ max_steps \in 0..MaxSteps
    /\ paused = FALSE
    /\ stopped = FALSE
    /\ pc = "idle"
    /\ step = 0
    /\ all_completed = FALSE
    /\ i = 1
    /\ waiting = FALSE
    /\ records = <<>>
    /\ iters = 0
    /\ finish_step = NoStep
    /\ runs = 0
    /\ prev_end = "none"
    /\ stop_when = "none"
    /\ stop_in_body = FALSE
    /\ frames_at_stop = 0
    /\ pause_when = "none"

\* --------------------------------------------------------- control calls
\* set_paused(paused), from the control thread, at any time
set_paused(p) ==
    /\ paused' = p
    /\ pause_when' = IF ~p THEN "none"
                     ELSE IF paused THEN pause_when ELSE Where
    /\ UNCHANGED <<prev_end, robot_states, max_steps, goal_threshold,
                   time_step, stopped, pc, step, all_completed, i, waiting,
                   records, iters, finish_step, runs, stop_when, stop_in_body,
                   frames_at_stop>>

\* stop(), from the control thread, at any time
stop ==
    /\ stopped' = TRUE
    /\ stop_when' = IF stop_when = "none" THEN Where ELSE stop_when
    /\ stop_in_body' = IF stopped THEN stop_in_body
                       ELSE pc \in {"update", "render"}
    /\ frames_at_stop' = IF stopped THEN frames_at_stop
                         ELSE Count("running", records)
    /\ UNCHANGED <<prev_end, robot_states, max_steps, goal_threshold,
                   time_step, paused, pc, step, all_completed, i, waiting,
                   records, iters, finish_step, runs, pause_when>>

\* ------------------------------------------------------- generator steps
\* mutant of run(): the robots are put back to their start when run() is called
RunResetsRobots ==
    /\ pc \in {"idle", "done", "raised"}
    /\ runs < MaxRuns
    /\ runs' = runs + 1
    /\ prev_end' = IF pc = "idle" THEN "none" ELSE pc
    /\ step' = 0
    /\ all_completed' = FALSE
    /\ records' = <<>>
    /\ iters' = 0
    /\ finish_step' = NoStep
    /\ waiting' = FALSE
    /\ pc' = "top"
    /\ robot_states' =
           [k \in 1..Len(robot_states) |->
               InitialState(robot_states[k].goals, robot_states[k].max_speed)]
    /\ stop_in_body' = FALSE
    /\ frames_at_stop' = 0
    /\ UNCHANGED <<max_steps, goal_threshold, time_step, paused, stopped, i,
                   stop_when, pause_when>>

\* run() is called and the consumer pulls for the first time: step = 0.
\* A runner whose earlier stream has ended can be given to run() again.
Run ==
    /\ pc \in {"idle", "done", "raised"}
    /\ runs < MaxRuns
    /\ runs' = runs + 1
    /\ prev_end' = IF pc = "idle" THEN "none" ELSE pc
    /\ step' = 0
    /\ all_completed' = FALSE
    /\ records' = <<>>
    /\ iters' = 0
    /\ finish_step' = NoStep
    /\ waiting' = FALSE
    /\ pc' = "top"
    /\ stop_in_body' = FALSE
    /\ frames_at_stop' = 0
    /\ UNCHANGED <<robot_states, max_steps, goal_threshold, time_step, paused,
                   stopped, i, stop_when, pause_when>>

\* mutant: the pause branch is taken before the stop flag is looked at, so a
\* stopped stream stays in the pause loop until the pause is released
LoopExitUnlessPaused ==
    /\ pc = "top"
    /\ ~LoopCond(step, max_steps, stopped)
    /\ ~paused
    /\ pc' = "exit"
    /\ UNCHANGED <<prev_end, robot_states, max_steps, goal_threshold,
                   time_step, paused, stopped, step, all_completed, i,
                   waiting, records, iters, finish_step, runs, stop_when,
                   stop_in_body, frames_at_stop, pause_when>>

\* the loop test fails: control leaves the loop
LoopExit ==
    /\ pc = "top"
    /\ ~LoopCond(step, max_steps, stopped)
    /\ pc' = "exit"
    /\ UNCHANGED <<prev_end, robot_states, max_steps, goal_threshold,
                   time_step, paused, stopped, step, all_completed, i,
                   waiting, records, iters, finish_step, runs, stop_when,
                   stop_in_body, frames_at_stop, pause_when>>

\* if self.paused: time.sleep(0.1); continue
PauseWait ==
    /\ pc = "top"
    /\ LoopCond(step, max_steps, stopped)
    /\ paused
    /\ waiting' = TRUE
    /\ UNCHANGED <<prev_end, robot_states, max_steps, goal_threshold,
                   time_step, paused, stopped, pc, step, all_completed, i,
                   records, iters, finish_step, runs, stop_when, stop_in_body,
                   frames_at_stop, pause_when>>

\* the loop body is entered: all_completed = True, the for loop starts
BeginStep ==
    /\ pc = "top"
    /\ LoopCond(step, max_steps, stopped)
    /\ ~paused
    /\ all_completed' = TRUE
    /\ i' = 1
    /\ iters' = iters + 1
    /\ pc' = "update"
    /\ UNCHANGED <<prev_end, robot_states, max_steps, goal_threshold,
                   time_step, paused, stopped, step, waiting, records,
                   finish_step, runs, stop_when, stop_in_body, frames_at_stop,
                   pause_when>>

\* one pass of `for robot_state in self.robot_states`
UpdateRobot ==
    /\ pc = "update"
    /\ i <= Len(robot_states)
    /\ LET r == robot_states[i]
           moved == update_robot_position(r, goal_threshold)
       IN  IF r.goal_index < Len(r.goals)
           THEN /\ all_completed' = FALSE
                /\ robot_states' = [robot_states EXCEPT ![i] = moved]
                /\ finish_step' =
                       IF \A k \in 1..Len(robot_states) :
                              Finished(IF k = i THEN moved ELSE robot_states[k])
                       THEN step ELSE finish_step
           ELSE UNCHANGED <<all_completed, robot_states, finish_step>>
    /\ i' = i + 1
    /\ UNCHANGED <<prev_end, max_steps, goal_threshold, time_step, paused,
                   stopped, pc, step, waiting, records, iters, runs,
                   stop_when, stop_in_body, frames_at_stop, pause_when>>

\* mutant: the stop flag is read after the for loop and the step is given up
EndUpdatesChecksStop ==
    /\ pc = "update"
    /\ i > Len(robot_states)
    /\ pc' = IF stopped THEN "exit" ELSE "render"
    /\ UNCHANGED <<prev_end, robot_states, max_steps, goal_threshold,
                   time_step, paused, stopped, step, all_completed, i,
                   waiting, records, iters, finish_step, runs, stop_when,
                   stop_in_body, frames_at_stop, pause_when>>

\* the for loop is over
EndUpdates ==
    /\ pc = "update"
    /\ i > Len(robot_states)
    /\ pc' = "render"
    /\ UNCHANGED <<prev_end, robot_states, max_steps, goal_threshold,
                   time_step, paused, stopped, step, all_completed, i,
                   waiting, records, iters, finish_step, runs, stop_when,
                   stop_in_body, frames_at_stop, pause_when>>

\* fig = self._render_state(step); yield {'frame': fig, 'status': 'running'}
RenderAndYield ==
    /\ pc = "render"
    /\ records' = Append(records, "running")
    /\ pc' = "yielded_frame"
    /\ UNCHANGED <<prev_end, robot_states, max_steps, goal_threshold,
                   time_step, paused, stopped, step, all_completed, i,
                   waiting, iters, finish_step, runs, stop_when, stop_in_body,
                   frames_at_stop, pause_when>>

\* _render_state raises: the exception leaves the generator, which is finished
RenderRaises ==
    /\ pc = "render"
    /\ pc' = "raised"
    /\ UNCHANGED <<prev_end, robot_states, max_steps, goal_threshold,
                   time_step, paused, stopped, step, all_completed, i,
                   waiting, records, iters, finish_step, runs, stop_when,
                   stop_in_body, frames_at_stop, pause_when>>

\* the consumer pulls again after a frame: plt.close(fig); if all_completed:
\* yield {'status': 'completed'}; otherwise step += 1 and back to the test
ResumeAfterFrame ==
    /\ pc = "yielded_frame"
    /\ IF all_completed
       THEN /\ records' = Append(records, "completed")
            /\ pc' = "yielded_completed"
            /\ UNCHANGED step
       ELSE /\ step' = step + 1
            /\ pc' = "top"
            /\ UNCHANGED records
    /\ waiting' = FALSE
    /\ UNCHANGED <<prev_end, robot_states, max_steps, goal_threshold,
                   time_step, paused, stopped, all_completed, i, iters,
                   finish_step, runs, stop_when, stop_in_body, frames_at_stop,
                   pause_when>>

\* the consumer pulls after the 'completed' of the loop: break
ResumeAfterCompleted ==
    /\ pc = "yielded_completed"
    /\ pc' = "exit"
    /\ waiting' = FALSE
    /\ UNCHANGED <<prev_end, robot_states, max_steps, goal_threshold,
                   time_step, paused, stopped, step, all_completed, i,
                   records, iters, finish_step, runs, stop_when, stop_in_body,
                   frames_at_stop, pause_when>>

\* after the loop: if step >= max_steps: yield {'status': 'completed'}
AfterLoop ==
    /\ pc = "exit"
    /\ IF BudgetUsed(step, max_steps)
       THEN /\ records' = Append(records, "completed")
            /\ pc' = "yielded_final"
       ELSE /\ pc' = "done"
            /\ UNCHANGED records
    /\ UNCHANGED <<prev_end, robot_states, max_steps, goal_threshold,
                   time_step, paused, stopped, step, all_completed, i,
                   waiting, iters, finish_step, runs, stop_when, stop_in_body,
                   frames_at_stop, pause_when>>

\* the consumer pulls after the last record: the generator returns
ResumeAfterFinal ==
    /\ pc = "yielded_final"
    /\ pc' = "done"
    /\ waiting' = FALSE
    /\ UNCHANGED <<prev_end, robot_states, max_steps, goal_threshold,
                   time_step, paused, stopped, step, all_completed, i,
                   records, iters, finish_step, runs, stop_when, stop_in_body,
                   frames_at_stop, pause_when>>

Next ==
    \/ \E p \in BOOLEAN : set_paused(p)
    \/ stop
    \/ Run
    \/ LoopExit
    \/ PauseWait
    \/ BeginStep
    \/ UpdateRobot
    \/ EndUpdates
    \/ RenderAndYield
    \/ RenderRaises
    \/ ResumeAfterFrame
    \/ ResumeAfterCompleted
    \/ ResumeAfterFinal
    \/ AfterLoop

Spec == Init /\ [][Next]_vars

\* the fairness of the stepping thread: the consumer keeps pulling and every
\* step of the generator but the pause branch is eventually taken; the pause
\* branch re-reads self.paused every 0.1 s, so a release of the pause that
\* happens again and again is eventually seen by the loop (strong fairness)
GenStep ==
    \/ LoopExit
    \/ UpdateRobot
    \/ EndUpdates
    \/ RenderAndYield
    \/ RenderRaises
    \/ ResumeAfterFrame
    \/ ResumeAfterCompleted
    \/ ResumeAfterFinal
    \/ AfterLoop

\* the runners the liveness check starts from: the configurations of Init with
\* at most two robots (a further robot only lengthens the for loop of a step)
LiveInit == Init /\ Len(robot_states) <= 2

LiveSpec ==
    LiveInit /\ [][Next]_vars /\ WF_vars(GenStep) /\ SF_vars(BeginStep)

\* ------------------------------------------------------------ the claims
Frames(seq) == Count("running", seq)
Completions(seq) == Count("completed", seq)
LastRecord(seq) == IF seq = <<>> THEN "none" ELSE seq[Len(seq)]

\* C1: when stop() was called on a runner whose stream had not ended (between
\* pulls or during a step), the stream that ends has yielded exactly one
\* record with status 'stopped', and that record is its last.
C1_StoppedRecord ==
    (pc = "done" /\ runs = 1 /\ stop_when \in {"between", "midstep"}) =>
        (Count("stopped", records) = 1 /\ LastRecord(records) = "stopped")

\* C2: a stream yields at most one 'completed' record and nothing after it; a
\* stream that ended through the break on all_completed or with the budget
\* used up yielded exactly one; and after a 'completed' record no robot state
\* changes for as long as that stream lasts.
C2_Records ==
    /\ Completions(records) <= 1
    /\ Completions(records) = 1 => LastRecord(records) = "completed"
    /\ (pc = "done" /\ (all_completed \/ step >= max_steps)) =>
           Completions(records) = 1
    /\ (pc = "done" /\ ~stopped) => Completions(records) = 1

C2_Frozen ==
    (Completions(records) >= 1 /\ runs' = runs) => robot_states' = robot_states

C2_OneCompleted == [](C2_Records) /\ [][C2_Frozen]_vars

\* C2 witness: the stream ended through the break on all_completed in the last
\* iteration the budget allows, after a robot finished its goals in it
C2_Witness ==
    /\ pc = "done"
    /\ all_completed
    /\ step = max_steps - 1
    /\ finish_step # NoStep
    /\ Completions(records) = 1

\* C3: once the last unfinished robot has finished its goals in the iteration
\* numbered finish_step, the loop runs no iteration with another step number:
\* completion is yielded for that very step.
C3_SameStep ==
    (finish_step # NoStep /\ pc \in {"update", "render", "yielded_frame"}) =>
        step = finish_step

\* C4: while a pause that was requested between pulls is held, the step
\* counter and every robot state stay as they are and no frame is yielded.
C4_PauseFreezes ==
    [][(pause_when = "between" /\ pause_when' = "between" /\ runs' = runs) =>
           /\ step' = step
           /\ robot_states' = robot_states
           /\ Frames(records') = Frames(records)]_vars

\* C5: once stop() has been called while the stream was suspended between
\* pulls (or not pulled yet), no robot state changes and no frame is yielded,
\* whatever pulls and control calls follow.
C5_StopTerminal ==
    [][(stop_when \in {"unstarted", "between"}) =>
           /\ robot_states' = robot_states
           /\ Frames(records') <= Frames(records)]_vars

\* C5 witness: stop() came after a frame, the stream has ended with budget
\* left and goals unfinished, and a pause was set after the stop
C5_Witness ==
    /\ stop_when = "between"
    /\ pc = "done"
    /\ Frames(records) >= 1
    /\ step < max_steps
    /\ ~AllFinished
    /\ paused

\* C6: an error raised while rendering does not leave the stream as an
\* exception: the stream yields one 'error' record and ends.
C6_ErrorRecord ==
    /\ pc # "raised"
    /\ Count("error", records) <= 1

\* C7: after stop(), a set_paused call is rejected: neither flag changes.
C7_ResumeRejected ==
    [][stopped => (paused' = paused /\ stopped' = stopped)]_vars

\* C8: a stream that ends without stop() while goals remain unfinished has
\* entered the loop body exactly max_steps times, has yielded max_steps
\* frames and then one 'completed' record.
C8_BudgetSteps ==
    (pc = "done" /\ ~stopped /\ ~AllFinished) =>
        /\ iters = max_steps
        /\ step = max_steps
        /\ Frames(records) = max_steps
        /\ Len(records) = max_steps + 1
        /\ LastRecord(records) = "completed"

\* C8 witness: max_steps = 1, one motion step, one frame, then 'completed'
C8_Witness ==
    /\ pc = "done"
    /\ max_steps = 1
    /\ ~stopped
    /\ ~AllFinished
    /\ iters = 1
    /\ records = <<"running", "completed">>
    /\ \E k \in 1..Len(robot_states) : robot_states[k].x # StartPoint.x

C10_NotRestartable ==
    [][(pc = "done" \/ prev_end = "done") =>
           /\ robot_states' = robot_states
           /\ Frames(records') <= Frames(records)]_vars

\* the scenario-A runner, in its first stream, after the updates of a step
ScenarioA ==
    /\ time_step = ScenarioATimeStep
    /\ runs = 1
    /\ pc \in {"render", "yielded_frame"}

\* C11: in Scenario A the robot is at (5, 0) after step 1 and at (10, 0) after
\* step 2, and its goal_index becomes 1 in step 3: the step length is
\* min(max_speed * time_step, distance) with the configured time_step (the
\* positions are in tenths, as the scenario's lengths are).
C11_ScenarioA ==
    ScenarioA =>
        LET r == robot_states[1] IN
        /\ iters = 1 => (r.x = 50 /\ r.y = 0 /\ r.goal_index = 0)
        /\ iters = 2 => (r.x = 100 /\ r.y = 0 /\ r.goal_index = 0)
        /\ iters = 3 => (r.x = 100 /\ r.y = 0 /\ r.goal_index = 1)

\* the current target of a robot that has one, and squared distances
Target(r) == r.goals[r.goal_index + 1]
Dist2(r, g) == (g.x - r.x) * (g.x - r.x) + (g.y - r.y) * (g.y - r.y)
Robots == 1..Len(robot_states)

\* C12: every goal_index is within 0..len(goals) in every state; it never
\* decreases and grows by at most 1 in a step: a robot state changes only in
\* the pass of the for loop that is at that robot, once in an iteration.
C12_Range ==
    \A k \in Robots :
        /\ robot_states[k].goal_index >= 0
        /\ robot_states[k].goal_index <= Len(robot_states[k].goals)

C12_Change ==
    \A k \in Robots :
        /\ robot_states'[k].goal_index - robot_states[k].goal_index \in {0, 1}
        /\ robot_states'[k] # robot_states[k] =>
               (pc = "update" /\ i = k /\ i' = k + 1 /\ pc' = "update")

C12_GoalIndex == [](C12_Range) /\ [][C12_Change]_vars

\* C12 witness: a robot has passed both goals of its list, under a pause that
\* was set and a stop that came during the stream
C12_Witness ==
    \E k \in Robots :
        /\ robot_states[k].goal_index = 2
        /\ Len(robot_states[k].goals) = 2
        /\ stopped
        /\ paused

\* C13: a call of _update_robot_position that advances goal_index leaves x, y
\* and theta as they are, so a call that changes the position or the
\* orientation leaves goal_index as it is.
C13_Exclusive ==
    [][\A k \in Robots :
           robot_states'[k].goal_index # robot_states[k].goal_index =>
               /\ robot_states'[k].x = robot_states[k].x
               /\ robot_states'[k].y = robot_states[k].y
               /\ robot_states'[k].theta = robot_states[k].theta]_vars

\* C13 witness: a robot that has moved away from its start has, in another
\* call, passed a goal while it was off that goal
C13_Witness ==
    \E k \in Robots :
        /\ robot_states[k].goal_index = 1
        /\ robot_states[k].x = 5
        /\ robot_states[k].goals[1] = GoalB

\* C15: in a step that does not complete a goal, a robot with max_speed > 0
\* ends no farther from its target than it began, and moves by no more than
\* the distance it had left (squared distances are compared).
C15_Approach ==
    [][\A k \in Robots :
           LET a == robot_states[k]
               b == robot_states'[k]
           IN  (~Finished(a) /\ b.goal_index = a.goal_index
                    /\ a.max_speed > 0) =>
                   /\ Dist2(b, Target(a)) <= Dist2(a, Target(a))
                   /\ Dist2(b, [x |-> a.x, y |-> a.y]) <= Dist2(a, Target(a))
       ]_vars

\* C15 witness: a robot stands exactly on its target after a step that was
\* clamped to the distance left (1 from (5, 0) to (6, 0))
C15_Witness ==
    \E k \in Robots :
        /\ ~Finished(robot_states[k])
        /\ Target(robot_states[k]) = GoalB
        /\ robot_states[k].x = GoalB.x
        /\ robot_states[k].y = GoalB.y

\* C17: a robot whose goal_index equals len(goals) keeps its x, y, theta and
\* goal_index in every later step, of this stream or of a later one.
C17_FinishedFrozen ==
    [][\A k \in Robots :
           Finished(robot_states[k]) => robot_states'[k] = robot_states[k]
       ]_vars

\* C17 witness: the for loop has passed a robot that had finished its goals
\* before this iteration, and goes on to a robot that has not
C17_Witness ==
    /\ pc = "update"
    /\ i = 2
    /\ Len(robot_states) = 2
    /\ all_completed
    /\ Len(robot_states[1].goals) > 0
    /\ Finished(robot_states[1])
    /\ ~Finished(robot_states[2])

\* C14: after stop() at most one further frame is yielded; when stop() came
\* inside a loop body, the for loop still passes every robot and changes
\* each one that has goals left, and the frame of that step is yielded
\* (unless rendering raised) before the stop is seen at the next loop test.
C14_Frames ==
    /\ stopped => Frames(records) <= frames_at_stop + 1
    /\ (stop_in_body /\ pc \in {"render", "yielded_frame"}) =>
           i = Len(robot_states) + 1
    /\ (stop_in_body /\ pc \notin {"update", "render", "raised"}) =>
           Frames(records) = frames_at_stop + 1

C14_Advance ==
    (stopped /\ pc = "update" /\ i \in Robots /\ ~Finished(robot_states[i])
         /\ <<pc, i, robot_states>>' # <<pc, i, robot_states>>) =>
        /\ pc' = "update"
        /\ i' = i + 1
        /\ robot_states'[i] # robot_states[i]

C14_StepNotCut == [](C14_Frames) /\ [][C14_Advance]_vars

\* C14 witness: stop() came inside a loop body of a runner with two robots;
\* the frame of that step was yielded and the stream has ended with budget
\* left and goals unfinished
C14_Witness ==
    /\ stop_in_body
    /\ pc = "done"
    /\ Len(robot_states) = 2
    /\ Frames(records) = frames_at_stop + 1
    /\ step < max_steps
    /\ ~AllFinished

\* C16: the step counter counts the executed steps: when a stream has ended
\* it equals the number of loop bodies that were executed, the step that
\* found all goals completed included; and it never decreases, so it is
\* never put back to 0 on the same runner.
C16_Counts == pc = "done" => step = iters

C16_StepCounter == [](C16_Counts) /\ [][step' >= step]_vars

\* C18: paused and stopped are never both true.
C18_OneRunState == ~(paused /\ stopped)

\* C19: a runner that has a robot with no goals does not run: no loop body is
\* entered and no record is yielded.
C19_ZeroGoalsRejected ==
    (\E k \in Robots : robot_states[k].goals = <<>>) =>
        (iters = 0 /\ records = <<>>)

\* C20: while a pull that slept in the pause branch is at the loop test with
\* the pause or a stop in force, and on its way out of the loop, no robot
\* state changes and no record is yielded; and once stop() has been called
\* with the pause still held, that pull returns with the stream ended,
\* without any resume.
C20_Still ==
    (waiting /\ (pc = "exit" \/ (pc = "top" /\ (paused \/ stopped)))) =>
        /\ robot_states' = robot_states
        /\ records' = records

C20_StopEndsPause ==
    /\ [][C20_Still]_vars
    /\ (pc = "top" /\ waiting /\ paused /\ stopped) ~> (pc = "done")

\* C20 witness: the pull that slept in the pause branch has returned with the
\* stream ended by the stop, budget left, and the pause still set
C20_Witness ==
    /\ pc = "done"
    /\ waiting
    /\ paused
    /\ stopped
    /\ step < max_steps
    /\ Frames(records) >= 1
    /\ ~AllFinished

\* ------------------------------------------------------------ sanity
TypeOK ==
    /\ paused \in BOOLEAN /\ stopped \in BOOLEAN /\ waiting \in BOOLEAN
    /\ step \in 0..max_steps
    /\ runs \in 0..MaxRuns
    /\ \A k \in 1..Len(robot_states) :
           robot_states[k].goal_index \in 0..Len(robot_states[k].goals)

\* in every move the code can make next, the distance it takes the root of is
\* a perfect square and the displacement is an integer: the integer arithmetic
\* is exact (the comparison with the threshold is exact for any distance,
\* since the threshold is an integer)
ExactArithmetic ==
    \A k \in 1..Len(robot_states) :
        LET r == robot_states[k] IN
        ~Finished(r) =>
            LET g == r.goals[r.goal_index + 1]
                dx == g.x - r.x
                dy == g.y - r.y
                d == sqrt(dx * dx + dy * dy)
                s == Min((r.max_speed * SpeedNum) \div SpeedDen, d)
            IN  ~(d < goal_threshold) =>
                    /\ d * d = dx * dx + dy * dy
                    /\ d > 0
                    /\ (Abs(dx) * s) % d = 0
                    /\ (Abs(dy) * s) % d = 0
                    /\ (r.max_speed * SpeedNum) % SpeedDen = 0
====
